---- MODULE Spec2Model ----
(***************************************************************************)
(* Model of msticnb's notebooklet base classes (msticnb/notebooklet.py)    *)
(* and of the HostSummary notebooklet (msticnb/nb/azsent/host/             *)
(* host_summary.py).                                                       *)
(*                                                                         *)
(* Three specifications share the module's variables:                      *)
(*   Spec      - one HostSummary instance and the run calls made on it;    *)
(*   SpecMeta  - NBMetaData.search_terms and Notebooklet.match_terms       *)
(*               applied to bounded inputs;                                *)
(*   SpecCache - the three lru_cache-memoized fetch helpers called with    *)
(*               bounded argument tuples.                                  *)
(*                                                                         *)
(* Python values: text that the code inspects character by character is a  *)
(* sequence of one-character strings; names that the code only compares    *)
(* are TLA+ strings; None is the string "None" where the other values are  *)
(* strings and a record with isNone = TRUE where they are records.         *)
(***************************************************************************)
EXTENDS Integers, Sequences, FiniteSets, TLC

VARIABLES
    options,        \* self.options of the HostSummary instance
    verbose,        \* self.verbose
    last_result,    \* self._last_result
    nruns,          \* number of run invocations made so far
    call,           \* record of the latest run invocation and what it did
    api_cache,      \* lru_cache of _azure_api_details
    alerts_cache,   \* lru_cache of _get_related_alerts
    bkmk_cache,     \* lru_cache of _get_related_bookmarks
    issued,         \* backend calls issued per helper for the watched tuple
    nfresh,         \* distinct unwatched tuples fetched so far, per helper
    fetch,          \* record of the latest direct helper call
    st_call,        \* record of the latest search_terms evaluation
    mt_call         \* record of the latest match_terms call

vars == <<options, verbose, last_result, nruns, call, api_cache, alerts_cache,
          bkmk_cache, issued, nfresh, fetch, st_call, mt_call>>

run_vars   == <<options, verbose, last_result, nruns, call>>
cache_vars == <<api_cache, alerts_cache, bkmk_cache, issued, nfresh, fetch>>
meta_vars  == <<st_call, mt_call>>

Range(s) == {s[i] : i \in 1..Len(s)}

(***************************************************************************)
(* Text                                                                    *)
(***************************************************************************)

UpperCase == <<"A","B","C","D","E","F","G","H","I","J","K","L","M",
               "N","O","P","Q","R","S","T","U","V","W","X","Y","Z">>
LowerCase == <<"a","b","c","d","e","f","g","h","i","j","k","l","m",
               "n","o","p","q","r","s","t","u","v","w","x","y","z">>

\* str.casefold on one character (ASCII letters)
casefold_char(c) ==
    IF \E i \in 1..Len(UpperCase) : UpperCase[i] = c
    THEN LowerCase[CHOOSE i \in 1..Len(UpperCase) : UpperCase[i] = c]
    ELSE c

\* str.casefold
casefold(s) == [i \in 1..Len(s) |-> casefold_char(s[i])]

\* sep.join(parts)
RECURSIVE join(_, _)
join(sep, parts) ==
    IF parts = <<>> THEN <<>>
    ELSE IF Len(parts) = 1 THEN parts[1]
    ELSE parts[1] \o sep \o join(sep, Tail(parts))

\* str.split(sep) with an explicit separator: empty pieces are kept
RECURSIVE split_on(_, _)
split_on(s, sep) ==
    IF \A i \in 1..Len(s) : s[i] /= sep THEN <<s>>
    ELSE LET k == CHOOSE i \in 1..Len(s) :
                      s[i] = sep /\ \A j \in 1..(i - 1) : s[j] /= sep
         IN  <<SubSeq(s, 1, k - 1)>> \o split_on(SubSeq(s, k + 1, Len(s)), sep)

\* str.split() without argument: runs of whitespace separate, no empty pieces
split_ws(s) == SelectSeq(split_on(s, " "), LAMBDA piece : piece /= <<>>)

RECURSIVE flatten(_)
flatten(ss) == IF ss = <<>> THEN <<>> ELSE ss[1] \o flatten(Tail(ss))

(***************************************************************************)
(* re.search(term, text, re.IGNORECASE) for the pattern syntax the inputs  *)
(* use: literal characters, "." and the postfix repetition "*".            *)
(***************************************************************************)

\* re.compile raises re.error for a "*" with nothing to repeat, and for "**"
re_valid(p) ==
    \A i \in 1..Len(p) :
        p[i] = "*" => (i > 1 /\ p[i - 1] /= "*")

\* the case-sensitive comparison re.search makes without re.IGNORECASE
char_matches_case_sensitive(pc, c) ==
    IF pc = "." THEN c /= "\n" ELSE pc = c

\* one pattern character against one text character under re.IGNORECASE
char_matches(pc, c) ==
    IF pc = "." THEN c /= "\n" ELSE casefold_char(pc) = casefold_char(c)

RECURSIVE re_match_at(_, _, _, _)
re_match_at(p, i, t, j) ==
    IF i > Len(p) THEN TRUE
    ELSE IF i < Len(p) /\ p[i + 1] = "*"
    THEN \/ re_match_at(p, i + 2, t, j)
         \/ /\ j <= Len(t)
            /\ char_matches(p[i], t[j])
            /\ re_match_at(p, i, t, j + 1)
    ELSE /\ j <= Len(t)
         /\ char_matches(p[i], t[j])
         /\ re_match_at(p, i + 1, t, j + 1)

re_search(p, t) == \E j \in 1..(Len(t) + 1) : re_match_at(p, 1, t, j)


(***************************************************************************)
(* NBMetaData                                                              *)
(***************************************************************************)

\* attr.s class NBMetaData: options, default_options, entity_types and
\* keywords default to Factory(list)
NBMetaData(name, description, opts, default_opts, entity_types, keywords) ==
    [name |-> name, description |-> description, options |-> opts,
     default_options |-> default_opts, entity_types |-> entity_types,
     keywords |-> keywords]

\* Notebooklet.metadata
NotebookletMetadata ==
    NBMetaData(<<"N","o","t","e","b","o","o","k","l","e","t">>, "Base class", <<>>, <<>>, <<>>, <<>>)

\* HostSummary.metadata: no options argument is given, so options is the
\* empty list of the attribute's factory
HostSummaryMetadata ==
    NBMetaData(<<"H","o","s","t","S","u","m","m","a","r","y">>, "Host summary", <<>>,
               <<"heartbeat", "azure_net", "alerts", "bookmarks", "azure_api">>,
               <<<<"h","o","s","t">>>>,
               <<<<"h","o","s","t">>, <<"c","o","m","p","u","t","e","r">>, <<"h","e","a","r","t","b","e","a","t">>, <<"w","i","n","d","o","w","s">>, <<"l","i","n","u","x">>>>)

\* further NBMetaData instances: upper-case letters in every text field
SampleMetadata ==
    {NBMetaData(<<"n","b">>, "sample", <<<<"A","l","e","r","t","s">>>>, <<>>, <<<<"H","o","s","t">>>>, <<<<"h","o","s","t">>, <<"I","P">>>>),
     NBMetaData(<<"I","p","N","b">>, "sample", <<<<"g","e","o">>, <<"G","E","O">>>>, <<>>, <<<<"i","p">>>>, <<>>)}

NBMetaDataSet == {NotebookletMetadata, HostSummaryMetadata} \cup SampleMetadata

\* NBMetaData.search_terms
search_terms(md) ==
    {md.name}
        \cup {casefold(obj) : obj \in Range(md.entity_types)}
        \cup {casefold(key) : key \in Range(md.keywords)}
        \cup {casefold(opt) : opt \in Range(md.options)}

(***************************************************************************)
(* Notebooklet.match_terms                                                 *)
(***************************************************************************)

\* cls.__class__.__doc__: the docstring of the metaclass abc.ABCMeta, of
\* which the model keeps the first word
MetaclassDoc == <<"M","e","t","a","c","l","a","s","s">>

\* the orders in which iterating a set can yield its elements
Orders(S) ==
    {ord \in [1..Cardinality(S) -> S] :
        \A i, j \in 1..Cardinality(S) : i /= j => ord[i] /= ord[j]}

\* search_text = " ".join(cls.metadata.search_terms) + doc, for one
\* iteration order of the set
search_text_of(ord) == join(<<" ">>, ord) \o MetaclassDoc

\* the list comprehension: split on commas, then on whitespace
split_terms(s) ==
    LET pieces == split_on(s, ",")
    IN  flatten([i \in 1..Len(pieces) |-> split_ws(pieces[i])])

\* Notebooklet.match_terms on the search text `text`: re.search raises
\* re.error on the first term that is no regular expression
match_terms(s, text) ==
    LET terms == split_terms(s)
        hits  == {i \in 1..Len(terms) : re_search(terms[i], text)}
    IN  IF \E i \in 1..Len(terms) : ~re_valid(terms[i])
        THEN [raised |-> TRUE, all_matched |-> FALSE, match_count |-> 0,
              terms |-> terms]
        ELSE [raised |-> FALSE,
              all_matched |-> Cardinality(hits) = Len(terms),
              match_count |-> Cardinality(hits), terms |-> terms]

\* the terms callers pass: words, words in another case, regular
\* expressions, and "*", which is no regular expression
Tokens == {<<"h","o","s","t">>, <<"H","O","S","T">>, <<"h",".","s","t">>, <<"t",".","c">>, <<"z","q">>, <<"z","*">>, <<"*">>}
PairTokens == {<<"H","O","S","T">>, <<"z","q">>, <<"*">>}
Separators == {<<",">>, <<" ">>, <<",", " ">>}

\* the argument of match_terms: no term, one term, or two terms
TermStrings ==
    {<<>>, <<" ">>, <<",">>}
        \cup Tokens
        \cup {<<" ">> \o a \o <<",">> : a \in Tokens}
        \cup {a \o sep \o b : a \in PairTokens, b \in PairTokens,
                              sep \in Separators}

\* evaluate md.search_terms for the metadata drawn at the start
SearchTerms ==
    /\ ~st_call.called
    /\ st_call' = [st_call EXCEPT !.called = TRUE,
                                  !.result = search_terms(st_call.md)]
    /\ UNCHANGED <<mt_call, run_vars, cache_vars>>

\* call match_terms(arg) on a notebooklet class whose metadata is md;
\* mt_call.ord is the order in which " ".join iterates the search-term set
MatchTerms ==
    LET text == search_text_of(mt_call.ord)
        r    == match_terms(mt_call.arg, text)
    IN  /\ st_call.called
        /\ ~mt_call.called
        /\ mt_call' = [mt_call EXCEPT !.called = TRUE,
                                      !.search_text = text,
                                      !.raised = r.raised,
                                      !.all_matched = r.all_matched,
                                      !.match_count = r.match_count,
                                      !.terms = r.terms]
        /\ UNCHANGED <<st_call, run_vars, cache_vars>>

\* the inputs: a metadata instance, an iteration order of its search-term
\* set, and the argument of match_terms
InitMetaVars ==
    \E md \in NBMetaDataSet :
        \E ord \in Orders(search_terms(md)) :
            \E s \in TermStrings :
                /\ st_call = [called |-> FALSE, md |-> md, result |-> {}]
                /\ mt_call = [called |-> FALSE, md |-> md, ord |-> ord,
                              arg |-> s, search_text |-> <<>>,
                              raised |-> FALSE, all_matched |-> FALSE,
                              match_count |-> 0, terms |-> <<>>]


(***************************************************************************)
(* functools.lru_cache, as the three fetch helpers use it                  *)
(***************************************************************************)

\* @lru_cache() takes no maxsize argument: functools' default of 128
LruMaxSize == 128

\* indexes of the argument tuples the helpers are called with
MaxKeys == 129
\* backend calls allowed for the watched tuple (index 1)
MaxIssued == 2

Helpers == {"_azure_api_details", "_get_related_alerts",
            "_get_related_bookmarks"}

TimeSpans == <<"T1", "T2">>

\* the i-th argument tuple of a helper: (az_cli, host_record) for
\* _azure_api_details, (qry_prov, timespan, host_name) for the two queries.
\* Distinct indexes give distinct tuples.
KeyOf(h, i) ==
    IF h = "_azure_api_details"
    THEN <<"az_cli", i>>
    ELSE <<"qry_prov", TimeSpans[((i - 1) % 2) + 1], (i + 1) \div 2>>

cached(cache, key) == \E e \in 1..Len(cache) : cache[e].key = key

\* a memo that keeps every entry: lru_cache(maxsize=None)
lru_store_unbounded(cache, key, val) ==
    Append(cache, [key |-> key, val |-> val])

\* store a new entry as the most recently used one; a full memo drops its
\* least recently used entry
lru_store(cache, key, val) ==
    LET added == Append(cache, [key |-> key, val |-> val])
    IN  IF Len(added) > LruMaxSize THEN Tail(added) ELSE added

\* a hit makes the entry the most recently used one
lru_touch(cache, key) ==
    LET e == CHOOSE x \in 1..Len(cache) : cache[x].key = key
    IN  SelectSeq(cache, LAMBDA en : en.key /= key) \o <<cache[e]>>

\* body of _azure_api_details: CloudError is caught and None returned,
\* any other exception propagates
azure_api_details(outcome) ==
    IF outcome = "ok" THEN [raised |-> FALSE, val |-> "details"]
    ELSE IF outcome = "CloudError" THEN [raised |-> FALSE, val |-> "None"]
    ELSE [raised |-> TRUE, val |-> "None"]

\* bodies of _get_related_alerts and _get_related_bookmarks: the query
\* result is returned, an exception propagates
get_related(outcome) ==
    IF outcome = "ok" THEN [raised |-> FALSE, val |-> "rows"]
    ELSE [raised |-> TRUE, val |-> "None"]

helper_body(h, outcome) ==
    IF h = "_azure_api_details" THEN azure_api_details(outcome)
    ELSE get_related(outcome)

\* one call of a memoized helper: a hit returns the stored value without
\* running the body; a miss runs it and stores what it returns; a body that
\* raises stores nothing
memo_call(h, cache, key, outcome) ==
    IF cached(cache, key)
    THEN LET e == CHOOSE x \in 1..Len(cache) : cache[x].key = key
         IN  [cache |-> lru_touch(cache, key), issued |-> FALSE,
              raised |-> FALSE, val |-> cache[e].val]
    ELSE LET b == helper_body(h, outcome)
         IN  IF b.raised
             THEN [cache |-> cache, issued |-> TRUE, raised |-> TRUE,
                   val |-> "None"]
             ELSE [cache |-> lru_store(cache, key, b.val), issued |-> TRUE,
                   raised |-> FALSE, val |-> b.val]

Outcomes(h) ==
    IF h = "_azure_api_details" THEN {"ok", "CloudError", "raise"}
    ELSE {"ok", "raise"}

NoFetch ==
    [called |-> FALSE, helper |-> "", index |-> 0, cached_before |-> FALSE,
     stored_before |-> FALSE, since_before |-> 0, issued |-> FALSE,
     raised |-> FALSE, val |-> "None"]

\* the indexes a call may use: the watched tuple (index 1) or the next
\* tuple never fetched before
CallIndexes(h) == {1} \cup {i \in {nfresh[h].n + 2} : i <= MaxKeys}

\* A call of helper h with its i-th argument tuple, the backend answering
\* with `outcome`; r is what the memoized call does on h's memo.  The calls
\* of one behaviour go to one helper, and a tuple never fetched before
\* returns.
\* issued[h]: backend calls made for the watched tuple; nfresh[h].n: other
\* tuples fetched; nfresh[h].since: other tuples fetched since the watched
\* tuple was last stored or hit; nfresh[h].stored: the watched tuple's
\* backend call has returned.
HelperCall(h, was_cached, i, outcome, r) ==
    /\ \A g \in Helpers \ {h} : issued[g] = 0 /\ nfresh[g].n = 0
    /\ i = 1 => issued[h] < MaxIssued
    /\ i /= 1 => outcome = "ok"
    /\ issued' = [issued EXCEPT ![h] = IF i = 1 /\ r.issued
                                       THEN @ + 1 ELSE @]
    /\ nfresh' = [nfresh EXCEPT ![h] =
                    IF i = 1
                    THEN [n |-> @.n,
                          since |-> IF r.raised THEN @.since ELSE 0,
                          stored |-> @.stored \/ ~r.raised]
                    ELSE [n |-> @.n + 1, since |-> @.since + 1,
                          stored |-> @.stored]]
    /\ fetch' = [called |-> TRUE, helper |-> h, index |-> i,
                 cached_before |-> was_cached,
                 stored_before |-> nfresh[h].stored,
                 since_before |-> nfresh[h].since,
                 issued |-> r.issued, raised |-> r.raised, val |-> r.val]

\* _azure_api_details(az_cli, host_record)
AzureApiDetails(i, outcome) ==
    LET h   == "_azure_api_details"
        key == KeyOf(h, i)
        r   == memo_call(h, api_cache, key, outcome)
    IN  /\ HelperCall(h, cached(api_cache, key), i, outcome, r)
        /\ api_cache' = r.cache
        /\ UNCHANGED <<alerts_cache, bkmk_cache, run_vars, meta_vars>>

\* _get_related_alerts(qry_prov, timespan, host_name)
GetRelatedAlerts(i, outcome) ==
    LET h   == "_get_related_alerts"
        key == KeyOf(h, i)
        r   == memo_call(h, alerts_cache, key, outcome)
    IN  /\ HelperCall(h, cached(alerts_cache, key), i, outcome, r)
        /\ alerts_cache' = r.cache
        /\ UNCHANGED <<api_cache, bkmk_cache, run_vars, meta_vars>>

\* _get_related_bookmarks(qry_prov, timespan, host_name)
GetRelatedBookmarks(i, outcome) ==
    LET h   == "_get_related_bookmarks"
        key == KeyOf(h, i)
        r   == memo_call(h, bkmk_cache, key, outcome)
    IN  /\ HelperCall(h, cached(bkmk_cache, key), i, outcome, r)
        /\ bkmk_cache' = r.cache
        /\ UNCHANGED <<api_cache, alerts_cache, run_vars, meta_vars>>

InitCacheVars ==
    /\ api_cache = <<>>
    /\ alerts_cache = <<>>
    /\ bkmk_cache = <<>>
    /\ issued = [h \in Helpers |-> 0]
    /\ nfresh = [h \in Helpers |-> [n |-> 0, since |-> 0, stored |-> FALSE]]
    /\ fetch = NoFetch


(***************************************************************************)
(* HostSummary: one instance and its run calls                             *)
(***************************************************************************)

\* run invocations made on the instance in one behaviour
MaxRuns == 3

None == "None"
\* reading an attribute the instance does not have
Unset == "Unset"

\* bool(x) of a str or of None
Truthy(x) == x /= None /\ x /= ""

\* the options argument: None or a list
NoneOptions == [isNone |-> TRUE, list |-> <<>>]
ListOptions(l) == [isNone |-> FALSE, list |-> l]
\* bool(options)
TruthyOptions(o) == ~o.isNone /\ o.list /= <<>>

\* the names naming the conditional steps of HostSummary.run
FetchSteps == {"heartbeat", "azure_net", "azure_api", "alerts", "bookmarks"}

\* entities.Host(HostName=name)
Host(name) ==
    [isNone |-> FALSE, HostName |-> name, Environment |-> "Unknown",
     AzureDetails |-> "None", topology |-> FALSE]
NoneEntity ==
    [isNone |-> TRUE, HostName |-> None, Environment |-> None,
     AzureDetails |-> "None", topology |-> FALSE]

\* HostSummaryResult(description=...): the three fields default to None.
\* id tells the objects apart: the number of the run that built it.
HostSummaryResult(id, description) ==
    [isNone |-> FALSE, id |-> id, description |-> description,
     host_entity |-> NoneEntity, related_alerts |-> "None",
     related_bookmarks |-> "None"]
NoResult ==
    [isNone |-> TRUE, id |-> 0, description |-> "",
     host_entity |-> NoneEntity, related_alerts |-> "None",
     related_bookmarks |-> "None"]

\* the attributes Notebooklet.__init__ assigns; HostSummary defines no
\* __init__ and neither run method assigns another attribute
InstanceAttributes ==
    {"_kwargs", "result", "options", "verbose", "_last_result",
     "data_providers", "query_provider"}

\* Notebooklet.run: self.options is assigned only when options is falsy,
\* and then from metadata.options; verbose = kwargs.pop("verbose", verbose)
Notebooklet_run(self, metadata, opts, verbose_kw) ==
    [self EXCEPT
        !.options = IF ~TruthyOptions(opts) THEN metadata.options ELSE @,
        !.verbose = IF verbose_kw = "absent" THEN @ ELSE verbose_kw = "True"]

\* verify_host_name(qry_prov, timespan, host_name) -> (host_name, host_names)
verify_host_name(be, timespan, value) ==
    IF be.resolve = "unique"
    THEN [host_name |-> value, host_names |-> <<>>]
    ELSE IF be.resolve = "ambiguous"
    THEN [host_name |-> None, host_names |-> <<value, value>>]
    ELSE [host_name |-> None, host_names |-> <<>>]

\* get_heartbeat(qry_prov, host_name): the host entity built from the
\* Heartbeat table, None when the table has no record of the host
get_heartbeat(be, host_name) ==
    IF be.heartbeat = "none" THEN NoneEntity
    ELSE [Host(host_name) EXCEPT !.Environment = be.heartbeat]

\* get_aznet_topology(qry_prov, host_entity, host_name) updates the entity
get_aznet_topology(host_entity) == [host_entity EXCEPT !.topology = TRUE]

\* what a run call reports: the instance and the memos after it, how it
\* ended, and what it did on the way
RunReport(self, caches) ==
    [self |-> self, caches |-> caches, validated |-> FALSE,
     outcome |-> "raised", exc_type |-> "", exc_arg |-> "",
     verify_timespan |-> "NotEvaluated", backend_calls |-> {},
     query_timespans |-> {}, steps |-> {}, result |-> NoResult]

\* a run that keeps the result object it already has
keep_last_result(self, n, description) ==
    IF self.last_result.isNone THEN HostSummaryResult(n, description)
    ELSE self.last_result

\* line 157: self._last_result = HostSummaryResult(description=...)
new_last_result(self, n, description) == HostSummaryResult(n, description)

\* HostSummary.run from the call of verify_host_name on (lines 159-214);
\* self_timespan is what self.timespan evaluates to
run_from_verify(self, caches, value, self_timespan, be) ==
    LET v   == verify_host_name(be, self_timespan, value)
        rep == [RunReport(self, caches) EXCEPT
                   !.validated = TRUE,
                   !.verify_timespan = self_timespan,
                   !.backend_calls = {"verify_host_name"}]
    IN
    IF v.host_names /= <<>>
    THEN [rep EXCEPT !.outcome = "returned", !.result = self.last_result]
    ELSE
    LET host_name == IF Truthy(v.host_name) THEN v.host_name ELSE value
        opts == Range(self.options)
        e0 == Host(host_name)
        e1 == IF "heartbeat" \in opts THEN get_heartbeat(be, host_name) ELSE e0
        e2 == IF "azure_net" \in opts
              THEN get_aznet_topology(IF e1.isNone THEN Host(host_name) ELSE e1)
              ELSE e1
        api_wanted == "azure_api" \in opts /\ be.azure_api_provider
        api_step == api_wanted /\ ~e2.isNone /\ e2.Environment = "Azure"
        api == memo_call("_azure_api_details", caches.api,
                         <<"az_cli", host_name>>, be.cloud)
        e3 == IF api_step /\ api.val /= "None"
              THEN [e2 EXCEPT !.AzureDetails = api.val] ELSE e2
        c1 == IF api_step THEN [caches EXCEPT !.api = api.cache] ELSE caches
        al == memo_call("_get_related_alerts", c1.alerts,
                        <<"qry_prov", self_timespan, host_name>>, "ok")
        c2 == IF "alerts" \in opts THEN [c1 EXCEPT !.alerts = al.cache] ELSE c1
        bk == memo_call("_get_related_bookmarks", c2.bkmk,
                        <<"qry_prov", self_timespan, host_name>>, "ok")
        c3 == IF "bookmarks" \in opts THEN [c2 EXCEPT !.bkmk = bk.cache] ELSE c2
        steps1 == (opts \cap {"heartbeat", "azure_net"})
        steps2 == steps1 \cup (IF api_step THEN {"azure_api"} ELSE {})
        steps3 == steps2 \cup (opts \cap {"alerts", "bookmarks"})
        calls3 == {"verify_host_name"}
                    \cup (IF "alerts" \in opts THEN {"list_related_alerts"} ELSE {})
                    \cup (IF "bookmarks" \in opts
                          THEN {"list_bookmarks_for_entity"} ELSE {})
        qts == IF opts \cap {"alerts", "bookmarks"} /= {}
               THEN {self_timespan} ELSE {}
        with_entity == [self EXCEPT !.last_result.host_entity = e3]
    IN
    IF api_wanted /\ e2.isNone
    THEN \* host_entity.Environment on None
         [rep EXCEPT !.exc_type = "AttributeError", !.exc_arg = "Environment",
                     !.steps = steps1]
    ELSE IF "alerts" \notin opts
    THEN \* line 211 reads related_alerts, which no statement assigned
         [rep EXCEPT !.self = with_entity, !.caches = c3,
                     !.exc_type = "UnboundLocalError",
                     !.exc_arg = "related_alerts", !.steps = steps3,
                     !.backend_calls = calls3, !.query_timespans = qts]
    ELSE IF "bookmarks" \notin opts
    THEN \* line 212 reads related_bookmarks, which no statement assigned
         [rep EXCEPT !.self = [with_entity EXCEPT
                                  !.last_result.related_alerts = al.val],
                     !.caches = c3,
                     !.exc_type = "UnboundLocalError",
                     !.exc_arg = "related_bookmarks", !.steps = steps3,
                     !.backend_calls = calls3, !.query_timespans = qts]
    ELSE LET done == [with_entity EXCEPT
                         !.last_result.related_alerts = al.val,
                         !.last_result.related_bookmarks = bk.val]
         IN  [rep EXCEPT !.self = done, !.caches = c3,
                         !.outcome = "returned", !.steps = steps3,
                         !.backend_calls = calls3, !.query_timespans = qts,
                         !.result = done.last_result]

\* HostSummary.run(value, timespan=timespan, options=opts, verbose=...) as
\* the n-th run of the instance `self`, the backend being in state `be`
HostSummary_run(self, caches, n, value, timespan, opts, verbose_kw, be) ==
    LET s1  == Notebooklet_run(self, HostSummaryMetadata, opts, verbose_kw)
        rep == RunReport(s1, caches)
    IN
    IF ~Truthy(value)
    THEN [rep EXCEPT !.exc_type = "MsticnbMissingParameterError",
                     !.exc_arg = "value"]
    ELSE IF ~Truthy(timespan)
    THEN [rep EXCEPT !.exc_type = "MsticnbMissingParameterError",
                     !.exc_arg = "timespan."]
    ELSE
    LET s2 == [s1 EXCEPT !.last_result =
                  new_last_result(s1, n, HostSummaryMetadata.description)]
    IN  IF "timespan" \notin InstanceAttributes
        THEN \* evaluating the argument self.timespan of verify_host_name
             [RunReport(s2, caches) EXCEPT
                 !.validated = TRUE, !.exc_type = "AttributeError",
                 !.exc_arg = "timespan", !.verify_timespan = Unset]
        ELSE run_from_verify(s2, caches, value, Unset, be)

Values == {None, "", "host1"}
TimeSpanArgs == {None, "T1", "T2"}
OptionArgs ==
    {NoneOptions, ListOptions(<<>>), ListOptions(<<"heartbeat">>),
     ListOptions(<<"alerts", "bookmarks">>),
     ListOptions(HostSummaryMetadata.default_options)}
VerboseArgs == {"absent", "True"}
\* what the data backends hold for the host asked about
Backends ==
    {[resolve |-> "unique", heartbeat |-> "Azure", azure_api_provider |-> TRUE,
      cloud |-> "ok"],
     [resolve |-> "unique", heartbeat |-> "none", azure_api_provider |-> TRUE,
      cloud |-> "CloudError"],
     [resolve |-> "ambiguous", heartbeat |-> "Azure",
      azure_api_provider |-> FALSE, cloud |-> "ok"],
     [resolve |-> "none", heartbeat |-> "none", azure_api_provider |-> FALSE,
      cloud |-> "ok"]}

NoCall ==
    [n |-> 0, value |-> None, timespan |-> None, options |-> NoneOptions,
     resolve |-> "unique", prev_result |-> NoResult, validated |-> FALSE,
     outcome |-> "none", exc_type |-> "", exc_arg |-> "",
     verify_timespan |-> "NotEvaluated", backend_calls |-> {},
     query_timespans |-> {}, steps |-> {}, result |-> NoResult]

\* one invocation of run on the instance
Run(value, timespan, opts, verbose_kw, be) ==
    LET self == [options |-> options, verbose |-> verbose,
                 last_result |-> last_result]
        caches == [api |-> api_cache, alerts |-> alerts_cache,
                   bkmk |-> bkmk_cache]
        r == HostSummary_run(self, caches, nruns + 1, value, timespan, opts,
                             verbose_kw, be)
    IN  /\ nruns < MaxRuns
        /\ nruns' = nruns + 1
        /\ options' = r.self.options
        /\ verbose' = r.self.verbose
        /\ last_result' = r.self.last_result
        /\ api_cache' = r.caches.api
        /\ alerts_cache' = r.caches.alerts
        /\ bkmk_cache' = r.caches.bkmk
        /\ call' = [n |-> nruns + 1, value |-> value, timespan |-> timespan,
                    options |-> opts, resolve |-> be.resolve,
                    prev_result |-> last_result, validated |-> r.validated,
                    outcome |-> r.outcome, exc_type |-> r.exc_type,
                    exc_arg |-> r.exc_arg,
                    verify_timespan |-> r.verify_timespan,
                    backend_calls |-> r.backend_calls,
                    query_timespans |-> r.query_timespans,
                    steps |-> r.steps, result |-> r.result]
        /\ UNCHANGED <<issued, nfresh, fetch, meta_vars>>

\* Notebooklet.__init__: options = [], verbose from the keyword argument,
\* _last_result = None
InitRunVars ==
    /\ options = <<>>
    /\ verbose \in BOOLEAN
    /\ last_result = NoResult
    /\ nruns = 0
    /\ call = NoCall

(***************************************************************************)
(* Specifications                                                          *)
(***************************************************************************)

NoMetaCall ==
    /\ st_call = [called |-> FALSE, md |-> NotebookletMetadata, result |-> {}]
    /\ mt_call = [called |-> FALSE, md |-> NotebookletMetadata, ord |-> <<>>,
                  arg |-> <<>>, search_text |-> <<>>, raised |-> FALSE,
                  all_matched |-> FALSE, match_count |-> 0, terms |-> <<>>]

Init == InitRunVars /\ InitCacheVars /\ NoMetaCall

Next ==
    \E value \in Values, timespan \in TimeSpanArgs, opts \in OptionArgs,
       verbose_kw \in VerboseArgs, be \in Backends :
        Run(value, timespan, opts, verbose_kw, be)

Spec == Init /\ [][Next]_vars

InitMeta ==
    /\ options = <<>> /\ verbose = FALSE /\ last_result = NoResult
    /\ nruns = 0 /\ call = NoCall
    /\ InitCacheVars
    /\ InitMetaVars

NextMeta == SearchTerms \/ MatchTerms

SpecMeta == InitMeta /\ [][NextMeta]_vars

InitCache ==
    /\ options = <<>> /\ verbose = FALSE /\ last_result = NoResult
    /\ nruns = 0 /\ call = NoCall
    /\ InitCacheVars
    /\ NoMetaCall

NextCache ==
    \/ \E i \in CallIndexes("_azure_api_details") :
        \E outcome \in Outcomes("_azure_api_details") :
            AzureApiDetails(i, outcome)
    \/ \E i \in CallIndexes("_get_related_alerts") :
        \E outcome \in Outcomes("_get_related_alerts") :
            GetRelatedAlerts(i, outcome)
    \/ \E i \in CallIndexes("_get_related_bookmarks") :
        \E outcome \in Outcomes("_get_related_bookmarks") :
            GetRelatedBookmarks(i, outcome)

SpecCache == InitCache /\ [][NextCache]_vars


(***************************************************************************)
(* Properties                                                              *)
(***************************************************************************)

\* C1 (as claimed): after a run call whose options argument is None or
\* empty, self.options equals metadata.default_options.
C1_FalsyOptionsGiveDefaults ==
    call.n > 0 /\ ~TruthyOptions(call.options)
        => options = HostSummaryMetadata.default_options

\* C2 (as claimed): in a run call that gets a non-empty options list, passes
\* validation and whose host resolves, each of the steps heartbeat,
\* azure_net, alerts and bookmarks runs exactly when its name is in the
\* list given to that call.
C2_StepsFollowCallOptions ==
    call.n > 0 /\ call.validated /\ call.resolve = "unique"
            /\ TruthyOptions(call.options)
        => \A step \in {"heartbeat", "azure_net", "alerts", "bookmarks"} :
                step \in call.steps <=> step \in Range(call.options.list)

\* C3 (as claimed): a run call without value, or without timespan, raises
\* the missing-parameter error carrying exactly the missing parameter's
\* name, before any backend call.
C3_MissingParameterNamed ==
    call.n > 0 /\ (~Truthy(call.value) \/ ~Truthy(call.timespan))
        => /\ call.outcome = "raised"
           /\ call.exc_type = "MsticnbMissingParameterError"
           /\ call.exc_arg = (IF ~Truthy(call.value) THEN "value"
                              ELSE "timespan")
           /\ call.backend_calls = {}

\* C4 (as claimed): when the backend has no record of the host, a run call
\* that passes validation raises nothing and returns a result whose
\* host_entity carries the supplied value as host name.
C4_UnresolvedHostReturnsEntity ==
    call.n > 0 /\ call.validated /\ call.resolve = "none"
        => /\ call.outcome = "returned"
           /\ ~call.result.host_entity.isNone
           /\ call.result.host_entity.HostName = call.value

\* C5 (as claimed): when the host name is ambiguous, a run call that passes
\* validation raises nothing, returns a result whose three fields are
\* unset, and runs no fetch step.
C5_AmbiguousHostReturnsEmptyResult ==
    call.n > 0 /\ call.validated /\ call.resolve = "ambiguous"
        => /\ call.outcome = "returned"
           /\ ~call.result.isNone
           /\ call.result.host_entity.isNone
           /\ call.result.related_alerts = "None"
           /\ call.result.related_bookmarks = "None"
           /\ call.steps = {}

\* C6 (as claimed): in a run call that passes validation, the timespan
\* handed to host-name verification and to the alert and bookmark queries
\* is the timespan argument of that call.
C6_TimespanArgumentPassedThrough ==
    call.n > 0 /\ call.validated
        => /\ call.verify_timespan = call.timespan
           /\ call.query_timespans \subseteq {call.timespan}

\* substring test, ignoring case
Contains(text, word) ==
    LET folded_text == casefold(text)
        folded_word == casefold(word)
    IN  \E k \in 0..(Len(text) - Len(word)) :
            \A i \in 1..Len(word) : folded_text[k + i] = folded_word[i]

PlainWord(term) == \A i \in 1..Len(term) : term[i] \notin {".", "*"}

\* C7 (as claimed): for every argument, match_terms returns a pair
\* (all_matched, count) with all_matched true exactly when count is the
\* number of terms.
C7_MatchTermsReturnsForEveryString ==
    mt_call.called
        => /\ ~mt_call.raised
           /\ mt_call.all_matched <=> mt_call.match_count = Len(mt_call.terms)

\* C7 (amended): match_terms splits its argument on commas and whitespace;
\* it raises re.error exactly when a term is no regular expression;
\* otherwise it returns (all_matched, count) with 0 <= count <= number of
\* terms and all_matched true exactly when count is the number of terms,
\* where count, for terms that are plain words, is the number of terms
\* occurring in the search text whatever their case; "" gives (True, 0),
\* and "host" gives (True, 1) when the keywords include "host".
C7_MatchTermsOnRegularExpressions ==
    mt_call.called
        => LET terms == mt_call.terms
               n     == Len(terms)
               valid == \A i \in 1..n : re_valid(terms[i])
           IN  /\ \A i \in 1..n :
                    terms[i] /= <<>> /\ "," \notin Range(terms[i])
                                     /\ " " \notin Range(terms[i])
               /\ flatten(terms)
                    = SelectSeq(mt_call.arg, LAMBDA c : c \notin {",", " "})
               /\ mt_call.raised <=> ~valid
               /\ valid =>
                    /\ mt_call.match_count \in 0..n
                    /\ mt_call.all_matched <=> mt_call.match_count = n
                    /\ (\A i \in 1..n : PlainWord(terms[i]))
                         => mt_call.match_count = Cardinality(
                              {i \in 1..n : Contains(mt_call.search_text,
                                                     terms[i])})
               /\ mt_call.arg = <<>>
                    => mt_call.all_matched /\ mt_call.match_count = 0
               /\ (mt_call.arg = <<"h","o","s","t">>
                        /\ <<"h","o","s","t">> \in Range(mt_call.md.keywords))
                    => mt_call.all_matched /\ mt_call.match_count = 1

\* C7 witness: two terms, one written in upper case and found, one absent
C7_Witness ==
    /\ mt_call.called
    /\ ~mt_call.raised
    /\ mt_call.md = HostSummaryMetadata
    /\ mt_call.terms = <<<<"z","q">>, <<"H","O","S","T">>>>
    /\ mt_call.match_count = 1
    /\ ~mt_call.all_matched

\* C8 (as claimed): search_terms has at most
\* len(entity_types) + len(keywords) + len(options) + 1 elements, and every
\* element, the one from name included, is case-folded.
C8_SearchTermsCaseFolded ==
    st_call.called
        => /\ Cardinality(st_call.result)
                <= Len(st_call.md.entity_types) + Len(st_call.md.keywords)
                    + Len(st_call.md.options) + 1
           /\ \A term \in st_call.result : casefold(term) = term

\* C9 (as claimed): after every run invocation, _last_result is not a
\* result object built by an earlier invocation.
C9_EveryRunResetsLastResult ==
    call.n > 0 => last_result.isNone \/ last_result.id = call.n

\* C9 (amended): a run invocation that passes parameter validation replaces
\* _last_result by a result object it builds itself; one that fails with
\* the missing-parameter error leaves _last_result as it was.
C9_ValidatedRunResetsLastResult ==
    call.n > 0
        => IF call.validated
           THEN ~last_result.isNone /\ last_result.id = call.n
                    /\ last_result /= call.prev_result
           ELSE last_result = call.prev_result

\* C9 witness: a validated run replaced the result of an earlier run
C9_Witness ==
    /\ call.n >= 2
    /\ call.validated
    /\ ~call.prev_result.isNone
    /\ last_result.id = call.n

Caches == <<api_cache, alerts_cache, bkmk_cache>>

====
